---------------------------- MODULE Spec2Model ----------------------------
(***************************************************************************)
(* The ontology subsetting engine of gist_schema.py: GistSchema (model     *)
(* build, closure engine, topic subsetter) and SchemaSubset (renderer).    *)
(*                                                                         *)
(* A graph node is a pair <<namespace, local name>>: "gist" is the         *)
(* ontology namespace (the prefix https://w3id.org/semanticarts), "xsd"    *)
(* the XML Schema namespace, "ext" any other namespace, "bnode" a blank    *)
(* node.                                                                   *)
(***************************************************************************)
EXTENDS Integers, Sequences, FiniteSets, TLC

VARIABLES g, classes, properties, op, args, result, frame,
          articles_dir, output_file

vars ==
  << g, classes, properties, op, args, result, frame, articles_dir,
     output_file >>

-----------------------------------------------------------------------------
(* Bounds of the model *)

\* Most relational triples (subClassOf, property typing, domain, range,
\* subPropertyOf) in a loaded ontology document.
MaxTriples == 3

\* Largest max_depth passed to get_descendants.
MaxDepth == 3

\* Longest topic list / class-name list of a request.
MaxRequest == 2

-----------------------------------------------------------------------------
(* Names *)

GIST == "gist"

ClassNames == {"Event", "Landmark", "SpecialEvent", "Thing"}

\* A class name that no ontology of the model declares.
UnknownClass == "Unicorn"

\* The names of the model in the order of Python's str comparison.
NameOrder ==
  << "Agreement", "Category", "Collection", "Content", "Event",
     "GeoLocation", "Intention", "Landmark", "Literal", "Magnitude",
     "Organization", "PhysicalIdentifiableItem", "SpecialEvent", "Thing",
     "TimeInterval", "Unicorn", "isPartOf", "occursIn", "string",
     "xsd:string" >>

Range(s) == {s[i] : i \in DOMAIN s}

Min(a, b) == IF a <= b THEN a ELSE b

Rank(name) == CHOOSE i \in DOMAIN NameOrder : NameOrder[i] = name

\* Python's a < b on str, for the names of the model.
StrLess(a, b) == Rank(a) < Rank(b)

RECURSIVE Insert(_, _)
Insert(x, s) ==
  IF s = << >> THEN << x >>
  ELSE IF StrLess(x, Head(s)) THEN << x >> \o s
  ELSE << Head(s) >> \o Insert(x, Tail(s))

\* sorted() left out: the list in the order it was built.
SortedList_unsorted(s) == s

RECURSIVE SortedList(_)
\* Python's sorted(s) on a list of names.
SortedList(s) == IF s = << >> THEN << >> ELSE Insert(Head(s), SortedList(Tail(s)))

RECURSIVE SetToSeq(_)
\* One enumeration of a finite set of names (ascending).
SetToSeq(S) ==
  IF S = {} THEN << >>
  ELSE LET x == CHOOSE x \in S : \A y \in S : ~StrLess(y, x)
       IN  << x >> \o SetToSeq(S \ {x})


-----------------------------------------------------------------------------
(* The RDF graph (self.g): a set of triples <<subject, predicate, object>> *)

RDF_type == "rdf:type"
OWL_Class == << "owl", "Class" >>
OWL_ObjectProperty == << "owl", "ObjectProperty" >>
OWL_DatatypeProperty == << "owl", "DatatypeProperty" >>
OWL_equivalentClass == "owl:equivalentClass"
RDFS_subClassOf == "rdfs:subClassOf"
RDFS_subPropertyOf == "rdfs:subPropertyOf"
RDFS_domain == "rdfs:domain"
RDFS_range == "rdfs:range"
SKOS_prefLabel == "skos:prefLabel"
SKOS_definition == "skos:definition"

\* g.subjects(predicate, object)
Subjects(graph, p, o) == {t[1] : t \in {u \in graph : u[2] = p /\ u[3] = o}}

\* g.objects(subject, predicate)
Objects(graph, s, p) == {t[3] : t \in {u \in graph : u[1] = s /\ u[2] = p}}

\* isinstance(node, BNode)
IsBNode(node) == node[1] = "bnode"

\* str(node).startswith("https://w3id.org/semanticarts")
InOntologyNamespace(node) == node[1] = GIST

\* str(node).startswith("http://www.w3.org/2001/XMLSchema#")
InXsdNamespace(node) == node[1] = "xsd"

_get_local_name(uri) == uri[2]

\* An Optional[str] is << >> (None) or << text >>.
None == << >>

\* The first object of (subject, predicate) as text, None without one.  A
\* literal object is << "lit", text >>.
_get_literal(graph, subject, predicate) ==
  LET objs == Objects(graph, subject, predicate)
  IN  IF objs = {} THEN None ELSE << (CHOOSE o \in objs : TRUE)[2] >>

\* The local names of the objects of (subject, predicate) that are named
\* nodes of the ontology namespace, as the list the extraction loops build.
NamespaceLocals(graph, subject, predicate) ==
  SetToSeq({_get_local_name(o) :
              o \in {x \in Objects(graph, subject, predicate) :
                       ~IsBNode(x) /\ InOntologyNamespace(x)}})

\* The subjects typed `type` that become entries: named, in the namespace.
Retained(graph, type) ==
  {s \in Subjects(graph, RDF_type, type) : ~IsBNode(s) /\ InOntologyNamespace(s)}

\* _extract_classes without its second loop: no subclass list is filled.
_extract_classes_without_subclasses(graph) ==
  LET retained == Retained(graph, OWL_Class)
      locals == {_get_local_name(c) : c \in retained}
      nodeOf(l) == CHOOSE c \in retained : _get_local_name(c) = l
  IN  [l \in locals |->
         [uri |-> nodeOf(l),
          local_name |-> l,
          label |-> _get_literal(graph, nodeOf(l), SKOS_prefLabel),
          definition |-> _get_literal(graph, nodeOf(l), SKOS_definition),
          superclasses |-> NamespaceLocals(graph, nodeOf(l), RDFS_subClassOf),
          subclasses |-> << >>,
          is_defined_class |->
            \E t \in graph : t[1] = nodeOf(l) /\ t[2] = OWL_equivalentClass]]

\* GistSchema._extract_classes: self.classes after it ran.
_extract_classes(graph) ==
  LET retained == Retained(graph, OWL_Class)
      locals == {_get_local_name(c) : c \in retained}
      nodeOf(l) == CHOOSE c \in retained : _get_local_name(c) = l
      supers(l) == NamespaceLocals(graph, nodeOf(l), RDFS_subClassOf)
      \* Build subclass relationships
      subs(l) == SelectSeq(SetToSeq(locals), LAMBDA x : l \in Range(supers(x)))
  IN  [l \in locals |->
         [uri |-> nodeOf(l),
          local_name |-> l,
          label |-> _get_literal(graph, nodeOf(l), SKOS_prefLabel),
          definition |-> _get_literal(graph, nodeOf(l), SKOS_definition),
          superclasses |-> supers(l),
          subclasses |-> subs(l),
          is_defined_class |->
            \E t \in graph : t[1] = nodeOf(l) /\ t[2] = OWL_equivalentClass]]

\* The ranges list of a datatype property: an XML Schema range is tagged
\* "xsd:", any other named range is recorded by its local name.
DatatypeRanges(graph, prop) ==
  SetToSeq({IF InXsdNamespace(r) THEN "xsd:" \o _get_local_name(r) ELSE _get_local_name(r) :
              r \in {x \in Objects(graph, prop, RDFS_range) :
                       InXsdNamespace(x) \/ ~IsBNode(x)}})

\* GistSchema._extract_properties: self.properties after it ran.  Datatype
\* properties are stored after object properties, under the same keys.
_extract_properties(graph) ==
  LET objs == Retained(graph, OWL_ObjectProperty)
      datas == Retained(graph, OWL_DatatypeProperty)
      objLocals == {_get_local_name(p) : p \in objs}
      dataLocals == {_get_local_name(p) : p \in datas}
      locals == objLocals \cup dataLocals
      isObject(l) == l \notin dataLocals
      nodeOf(l) == IF isObject(l)
                   THEN CHOOSE p \in objs : _get_local_name(p) = l
                   ELSE CHOOSE p \in datas : _get_local_name(p) = l
      supers(l) == NamespaceLocals(graph, nodeOf(l), RDFS_subPropertyOf)
      \* Build subproperty relationships
      subs(l) == SelectSeq(SetToSeq(locals), LAMBDA x : l \in Range(supers(x)))
  IN  [l \in locals |->
         [uri |-> nodeOf(l),
          local_name |-> l,
          label |-> _get_literal(graph, nodeOf(l), SKOS_prefLabel),
          definition |-> _get_literal(graph, nodeOf(l), SKOS_definition),
          domains |-> NamespaceLocals(graph, nodeOf(l), RDFS_domain),
          ranges |-> IF isObject(l)
                     THEN NamespaceLocals(graph, nodeOf(l), RDFS_range)
                     ELSE DatatypeRanges(graph, nodeOf(l)),
          is_object_property |-> isObject(l),
          superproperties |-> supers(l),
          subproperties |-> subs(l)]]


-----------------------------------------------------------------------------
(* Topic seed tables *)

TOPIC_SEEDS ==
  [organizations |->
     << "Organization", "GovernmentOrganization", "CountryGovernment",
        "SubCountryGovernment", "IntergovernmentalOrganization", "Person" >>,
   events |->
     << "Event", "HistoricalEvent", "ContemporaryEvent", "PhysicalEvent",
        "ScheduledEvent", "Determination", "Transaction", "Task", "Project" >>,
   time |-> << "TimeInterval", "TemporalRelation" >>,
   geo |->
     << "GeoLocation", "GeoPoint", "GeoRegion", "GeoVolume", "GeoRoute",
        "GovernedGeoRegion", "CountryGeoRegion", "Landmark", "Building",
        "PhysicalAddress" >>,
   agreements |->
     << "Agreement", "Contract", "Commitment", "ContingentObligation",
        "Offer", "Account", "ContractTerm" >>,
   quantities |->
     << "Magnitude", "Aspect", "UnitOfMeasure", "ReferenceValue",
        "SimpleUnitOfMeasure", "CoherentProductUnitOfMeasure",
        "StandardUnitOfMeasure", "ProductUnitOfMeasure", "RatioUnitOfMeasure",
        "UnitGroup" >>,
   content |->
     << "Content", "ContentExpression", "FormattedContent", "Message",
        "IntellectualProperty", "KnowledgeConcept", "ID", "Address",
        "ElectronicAddress" >>,
   collections |->
     << "Collection", "OrderedCollection", "OrderedMember",
        "ControlledVocabulary", "Network", "NetworkNode", "NetworkLink" >>,
   categories |->
     << "Category", "Tag", "Behavior", "ProductCategory", "EquipmentType",
        "MediaType", "GeneralMediaType", "Discipline" >>,
   artifacts |->
     << "PhysicalIdentifiableItem", "Equipment", "Landmark", "Building",
        "PhysicalSubstance", "LivingThing" >>,
   intentions |->
     << "Intention", "Requirement", "Restriction", "Permission", "Function",
        "Specification", "CatalogItem", "EventSpecification" >>]

TOPIC_PROPERTIES ==
  [organizations |->
     << "hasMember", "isMemberOf", "isGovernedBy", "hasJurisdictionOver",
        "isUnderJurisdictionOf", "owns", "isOwnedBy" >>,
   events |->
     << "isParticipantIn", "hasParticipant", "isAffectedBy", "affects",
        "isTriggeredBy", "produces", "isProducedBy", "occursIn" >>,
   time |->
     << "atDateTime", "startDateTime", "endDateTime", "actualStartDateTime",
        "actualEndDateTime", "actualStartDate", "actualEndDate",
        "plannedStartDateTime", "plannedEndDateTime", "plannedStartDate",
        "plannedEndDate", "birthDate", "deathDate", "hasStart", "hasEnd",
        "hasGiver", "hasRecipient" >>,
   geo |->
     << "hasPhysicalLocation", "isGeoContainedIn", "latitude", "longitude",
        "refersTo", "hasAddress" >>,
   agreements |->
     << "hasParty", "hasGiver", "hasRecipient", "offersToProvide",
        "offersToReceive", "isUnderJurisdictionOf", "conformsTo" >>,
   quantities |->
     << "hasMagnitude", "hasAspect", "hasUnitOfMeasure", "numericValue",
        "conversionFactor", "conversionOffset", "hasBaseUnit" >>,
   content |->
     << "isExpressedIn", "isRenderedOn", "isAbout", "uniqueText",
        "containedText", "name", "description", "comesFromAgent",
        "goesToAgent" >>,
   collections |->
     << "isMemberOf", "hasMember", "isDirectPartOf", "hasDirectPart",
        "precedesDirectly", "precedes", "sequence", "providesOrderFor",
        "isFirstMemberOf", "links" >>,
   categories |-> << "isCategorizedBy", "isAllocatedBy" >>,
   artifacts |-> << "isMadeUpOf", "hasBiologicalParent" >>,
   intentions |-> << "allows", "prevents", "requires", "conformsTo" >>]

-----------------------------------------------------------------------------
(* Closure engine *)

RECURSIVE AncestorsLoop(_, _, _)
\* The while loop of get_ancestors / get_property_ancestors over the direct
\* edges `up` of the registry `registry`: pop the last name of the stack,
\* skip it when visited or unknown, else record it and push its parents.
AncestorsLoop(up, to_visit, ancestors) ==
  IF to_visit = << >> THEN ancestors
  ELSE LET current == to_visit[Len(to_visit)]
           rest == SubSeq(to_visit, 1, Len(to_visit) - 1)
       IN  IF current \in ancestors \/ current \notin DOMAIN up
           THEN AncestorsLoop(up, rest, ancestors)
           ELSE AncestorsLoop(up, rest \o up[current], ancestors \cup {current})

\* get_ancestors that also returns the direct superclass names it skipped.
get_ancestors_keeps_unknown(class_name) ==
  IF class_name \notin DOMAIN classes THEN {}
  ELSE AncestorsLoop([c \in DOMAIN classes |-> classes[c].superclasses],
                     classes[class_name].superclasses, {})
         \cup Range(classes[class_name].superclasses)

\* get_ancestors that returns before its loop.
get_ancestors_none(class_name) == {}

\* get_ancestors that never pushes the parents of a visited class.
get_ancestors_direct_only(class_name) ==
  IF class_name \notin DOMAIN classes THEN {}
  ELSE Range(classes[class_name].superclasses) \cap DOMAIN classes

\* GistSchema.get_ancestors
get_ancestors(class_name) ==
  IF class_name \notin DOMAIN classes THEN {}
  ELSE AncestorsLoop([c \in DOMAIN classes |-> classes[c].superclasses],
                     classes[class_name].superclasses, {})

RECURSIVE DescendantsLoop(_, _, _)
\* The for loop of get_descendants: `remaining` iterations are left.
DescendantsLoop(current_level, descendants, remaining) ==
  IF remaining <= 0 THEN descendants
  ELSE LET added == {cls \in current_level :
                       cls \notin descendants /\ cls \in DOMAIN classes}
           next_level == UNION {Range(classes[cls].subclasses) : cls \in added}
       IN  DescendantsLoop(next_level, descendants \cup added, remaining - 1)

\* get_descendants that runs one level too far.
get_descendants_one_level_more(class_name, max_depth) ==
  IF class_name \notin DOMAIN classes THEN {}
  ELSE DescendantsLoop(Range(classes[class_name].subclasses), {}, max_depth + 1)

\* get_descendants that stops one level short.
get_descendants_one_level_less(class_name, max_depth) ==
  IF class_name \notin DOMAIN classes THEN {}
  ELSE DescendantsLoop(Range(classes[class_name].subclasses), {}, max_depth - 1)

RECURSIVE LastLevel(_, _)
LastLevel(current_level, remaining) ==
  IF remaining <= 1 THEN current_level
  ELSE LastLevel(UNION {Range(classes[cls].subclasses) : cls \in current_level},
                 remaining - 1)

\* get_descendants that keeps the last level visited instead of accumulating.
get_descendants_last_level(class_name, max_depth) ==
  IF class_name \notin DOMAIN classes \/ max_depth <= 0 THEN {}
  ELSE LastLevel(Range(classes[class_name].subclasses), max_depth)

\* GistSchema.get_descendants
get_descendants(class_name, max_depth) ==
  IF class_name \notin DOMAIN classes THEN {}
  ELSE DescendantsLoop(Range(classes[class_name].subclasses), {}, max_depth)

\* GistSchema.get_property_ancestors
get_property_ancestors(prop_name) ==
  IF prop_name \notin DOMAIN properties THEN {}
  ELSE AncestorsLoop([p \in DOMAIN properties |-> properties[p].superproperties],
                     properties[prop_name].superproperties, {})


\* One iteration of the while loop that never skips a visited name.
AncestorsStep_unguarded(up, to_visit, ancestors) ==
  LET current == to_visit[Len(to_visit)]
      rest == SubSeq(to_visit, 1, Len(to_visit) - 1)
  IN  IF current \notin DOMAIN up
      THEN [to_visit |-> rest, ancestors |-> ancestors]
      ELSE [to_visit |-> rest \o up[current], ancestors |-> ancestors \cup {current}]

\* One iteration of the while loop of get_ancestors / get_property_ancestors:
\* the stack and the visited set after it.
AncestorsStep(up, to_visit, ancestors) ==
  LET current == to_visit[Len(to_visit)]
      rest == SubSeq(to_visit, 1, Len(to_visit) - 1)
  IN  IF current \in ancestors \/ current \notin DOMAIN up
      THEN [to_visit |-> rest, ancestors |-> ancestors]
      ELSE [to_visit |-> rest \o up[current], ancestors |-> ancestors \cup {current}]

\* One iteration of the for loop of get_descendants: the level, the found
\* set and the iterations left after it.
DescendantsStep(current_level, descendants, remaining) ==
  LET added == {cls \in current_level :
                  cls \notin descendants /\ cls \in DOMAIN classes}
  IN  [current_level |-> UNION {Range(classes[cls].subclasses) : cls \in added},
       descendants |-> descendants \cup added,
       remaining |-> remaining - 1]

-----------------------------------------------------------------------------
(* Topic subsetter *)

\* max_depth of the descendant expansion of a seed class.
SeedDescendantDepth == 2

\* ExistingNames without the membership test: every name of the list.
ExistingNames_unchecked(names, registry) == Range(names)

RECURSIVE ExistingNames(_, _)
\* The names of the list `names` that are keys of `registry`, as a set.
ExistingNames(names, registry) ==
  IF names = << >> THEN {}
  ELSE (IF Head(names) \in DOMAIN registry THEN {Head(names)} ELSE {})
       \cup ExistingNames(Tail(names), registry)

\* The seed gathering that starts over at every topic: the seeds of the last
\* topic of the list alone.
SeedClasses_last_topic(topics) ==
  IF topics = << >> \/ topics[Len(topics)] \notin DOMAIN TOPIC_SEEDS THEN {}
  ELSE ExistingNames(TOPIC_SEEDS[topics[Len(topics)]], classes)

RECURSIVE SeedClasses(_)
\* Gather seed classes from topics
SeedClasses(topics) ==
  IF topics = << >> THEN {}
  ELSE (IF Head(topics) \in DOMAIN TOPIC_SEEDS
        THEN ExistingNames(TOPIC_SEEDS[Head(topics)], classes) ELSE {})
       \cup SeedClasses(Tail(topics))

RECURSIVE SeedProperties(_)
\* Add explicitly associated properties
SeedProperties(topics) ==
  IF topics = << >> THEN {}
  ELSE (IF Head(topics) \in DOMAIN TOPIC_PROPERTIES
        THEN ExistingNames(TOPIC_PROPERTIES[Head(topics)], properties) ELSE {})
       \cup SeedProperties(Tail(topics))

\* The relevance pass without the range test.
RelevantProperties_domain_only(selected_classes) ==
  {prop_name \in DOMAIN properties :
     \E d \in Range(properties[prop_name].domains) : d \in selected_classes}

\* The relevance pass that tests the ranges of every property.
RelevantProperties_any_range(selected_classes) ==
  {prop_name \in DOMAIN properties :
     \/ \E d \in Range(properties[prop_name].domains) : d \in selected_classes
     \/ \E r \in Range(properties[prop_name].ranges) : r \in selected_classes}

\* Find properties relevant to selected classes: a domain in the class set,
\* or, for an object property, a range in the class set.
RelevantProperties(selected_classes) ==
  {prop_name \in DOMAIN properties :
     \/ \E d \in Range(properties[prop_name].domains) : d \in selected_classes
     \/ /\ properties[prop_name].is_object_property
        /\ \E r \in Range(properties[prop_name].ranges) : r \in selected_classes}

\* The expansion that follows subproperty edges as well.
ExpandProperties_with_subproperties(selected_properties) ==
  selected_properties
    \cup UNION {get_property_ancestors(prop) : prop \in selected_properties}
    \cup UNION {Range(properties[prop].subproperties) : prop \in selected_properties}

\* The expansion left out.
ExpandProperties_none(selected_properties) == selected_properties

\* Add property ancestors for hierarchy context
ExpandProperties(selected_properties) ==
  selected_properties
    \cup UNION {get_property_ancestors(prop) : prop \in selected_properties}

\* SchemaSubset(schema, classes, properties)
SchemaSubset(class_names, property_names) ==
  [class_names |-> class_names, property_names |-> property_names]

\* subset_by_topics whose expanded set starts empty instead of from the seeds.
subset_by_topics_without_seeds(topics, include_descendants) ==
  LET selected_classes == SeedClasses(topics)
      expanded_classes ==
        UNION {get_ancestors(cls) : cls \in selected_classes}
          \cup (IF include_descendants
                THEN UNION {get_descendants(cls, SeedDescendantDepth) :
                              cls \in selected_classes}
                ELSE {})
      selected_properties ==
        SeedProperties(topics) \cup RelevantProperties(expanded_classes)
  IN  SchemaSubset(expanded_classes, ExpandProperties(selected_properties))

\* subset_by_topics that expands the descendants of the ancestors too.
subset_by_topics_descend_expanded(topics, include_descendants) ==
  LET selected_classes == SeedClasses(topics)
      with_ancestors ==
        selected_classes \cup UNION {get_ancestors(cls) : cls \in selected_classes}
      expanded_classes ==
        with_ancestors
          \cup (IF include_descendants
                THEN UNION {get_descendants(cls, SeedDescendantDepth) :
                              cls \in with_ancestors}
                ELSE {})
      selected_properties ==
        SeedProperties(topics) \cup RelevantProperties(expanded_classes)
  IN  SchemaSubset(expanded_classes, ExpandProperties(selected_properties))

\* GistSchema.subset_by_topics
subset_by_topics(topics, include_descendants) ==
  LET selected_classes == SeedClasses(topics)
      expanded_classes ==
        selected_classes
          \cup UNION {get_ancestors(cls) : cls \in selected_classes}
          \cup (IF include_descendants
                THEN UNION {get_descendants(cls, SeedDescendantDepth) :
                              cls \in selected_classes}
                ELSE {})
      selected_properties ==
        SeedProperties(topics) \cup RelevantProperties(expanded_classes)
  IN  SchemaSubset(expanded_classes, ExpandProperties(selected_properties))

RECURSIVE NamedWithAncestors(_)
\* The first loop of subset_by_classes.
NamedWithAncestors(class_names) ==
  IF class_names = << >> THEN {}
  ELSE (IF Head(class_names) \in DOMAIN classes
        THEN {Head(class_names)} \cup get_ancestors(Head(class_names))
        ELSE {})
       \cup NamedWithAncestors(Tail(class_names))

\* subset_by_classes that adds no ancestors.
subset_by_classes_named_only(class_names) ==
  LET selected_classes == ExistingNames(class_names, classes)
  IN  SchemaSubset(selected_classes,
                   ExpandProperties(RelevantProperties(selected_classes)))

\* subset_by_classes that expands descendants as subset_by_topics does.
subset_by_classes_with_descendants(class_names) ==
  LET named == ExistingNames(class_names, classes)
      selected_classes ==
        NamedWithAncestors(class_names)
          \cup UNION {get_descendants(cls, SeedDescendantDepth) : cls \in named}
  IN  SchemaSubset(selected_classes,
                   ExpandProperties(RelevantProperties(selected_classes)))

\* GistSchema.subset_by_classes
subset_by_classes(class_names) ==
  LET selected_classes == NamedWithAncestors(class_names)
  IN  SchemaSubset(selected_classes,
                   ExpandProperties(RelevantProperties(selected_classes)))

-----------------------------------------------------------------------------
(* Subset renderer *)

\* The default of max_definition_len.
DefaultMaxDefinitionLen == 120

RECURSIVE Repeat(_, _)
\* Python's text * n.
Repeat(text, n) == IF n <= 0 THEN "" ELSE text \o Repeat(text, n - 1)

RECURSIVE Join(_, _)
\* Python's sep.join(parts).
Join(sep, parts) ==
  IF parts = << >> THEN ""
  ELSE IF Len(parts) = 1 THEN parts[1]
  ELSE parts[1] \o sep \o Join(sep, Tail(parts))

\* Python's text.startswith(prefix).
StartsWith(text, prefix) ==
  Len(text) >= Len(prefix) /\ SubSeq(text, 1, Len(prefix)) = prefix

\* The truncation that also marks a definition of exactly max_definition_len
\* characters.
Truncated_marker_at_equal(definition, max_definition_len) ==
  SubSeq(definition, 1, Min(max_definition_len, Len(definition)))
    \o (IF Len(definition) >= max_definition_len THEN "..." ELSE "")

\* The definition truncated to max_definition_len characters, with "..."
\* when it was longer.
Truncated(definition, max_definition_len) ==
  SubSeq(definition, 1, Min(max_definition_len, Len(definition)))
    \o (IF Len(definition) > max_definition_len THEN "..." ELSE "")

\* `if info.definition:` -- neither None nor empty.
HasDefinition(info) == info.definition # None /\ info.definition[1] # ""

\* Find root classes in our subset: no superclass lies in the subset.
Roots(subset, class_order) ==
  SelectSeq(class_order,
            LAMBDA name :
              /\ name \in DOMAIN classes
              /\ ~\E sup \in Range(classes[name].superclasses) :
                    sup \in subset.class_names)

RECURSIVE format_class(_, _, _, _, _)
RECURSIVE FormatSubclasses(_, _, _, _, _, _)
\* format_class of to_prompt_text: the text of the class and of its
\* subclasses in the subset, and the visited set after the call.
format_class(subset, max_definition_len, name, indent, visited) ==
  IF name \in visited \/ name \notin subset.class_names
  THEN [text |-> "", visited |-> visited]
  ELSE LET info == classes[name]
           prefix == Repeat("  ", indent)
           marker == IF info.is_defined_class THEN " [defined]" ELSE ""
           head == prefix \o "gist:" \o name \o marker \o "\n"
           defn == IF HasDefinition(info)
                   THEN prefix \o "  "
                          \o Truncated(info.definition[1], max_definition_len) \o "\n"
                   ELSE ""
       IN  FormatSubclasses(subset, max_definition_len, SortedList(info.subclasses),
                            indent, visited \cup {name}, head \o defn)

\* The loop over sorted(info.subclasses), appending to `text`.
FormatSubclasses(subset, max_definition_len, subs, indent, visited, text) ==
  IF subs = << >> THEN [text |-> text, visited |-> visited]
  ELSE IF Head(subs) \notin subset.class_names
  THEN FormatSubclasses(subset, max_definition_len, Tail(subs), indent, visited, text)
  ELSE LET sub == format_class(subset, max_definition_len, Head(subs), indent + 1, visited)
       IN  FormatSubclasses(subset, max_definition_len, Tail(subs), indent,
                            sub.visited, text \o sub.text)

RECURSIVE FormatRoots_fresh_visited(_, _, _, _)
\* The loop over sorted(roots) calling format_class(root) without the shared
\* visited set: each root starts from an empty one.
FormatRoots_fresh_visited(subset, max_definition_len, roots, visited) ==
  IF roots = << >> THEN << >>
  ELSE LET first == format_class(subset, max_definition_len, Head(roots), 0, {})
       IN  << first.text >>
             \o FormatRoots_fresh_visited(subset, max_definition_len, Tail(roots), {})

RECURSIVE FormatRoots(_, _, _, _)
\* The loop over sorted(roots): one entry of `lines` per root.
FormatRoots(subset, max_definition_len, roots, visited) ==
  IF roots = << >> THEN << >>
  ELSE LET first == format_class(subset, max_definition_len, Head(roots), 0, visited)
       IN  << first.text >>
             \o FormatRoots(subset, max_definition_len, Tail(roots), first.visited)

\* The lines of one property entry.
PropertyLines(name, max_definition_len) ==
  LET info == properties[name]
      ranges == [i \in DOMAIN info.ranges |->
                   IF ~info.is_object_property /\ StartsWith(info.ranges[i], "xsd:")
                   THEN info.ranges[i] ELSE "gist:" \o info.ranges[i]]
      constraints ==
        (IF info.domains # << >>
         THEN << "Domain: "
                   \o Join(", ", [i \in DOMAIN info.domains |-> "gist:" \o info.domains[i]]) >>
         ELSE << >>)
        \o (IF info.ranges # << >> THEN << "Range: " \o Join(", ", ranges) >> ELSE << >>)
  IN  << "gist:" \o name >>
        \o (IF HasDefinition(info)
            THEN << "  " \o Truncated(info.definition[1], max_definition_len) >>
            ELSE << >>)
        \o (IF constraints # << >>
            THEN << "  [" \o Join("; ", constraints) \o "]" >>
            ELSE << >>)
        \o << "" >>

RECURSIVE PropertySection(_, _)
\* The entries of sorted(props).
PropertySection(names, max_definition_len) ==
  IF names = << >> THEN << >>
  ELSE PropertyLines(Head(names), max_definition_len)
         \o PropertySection(Tail(names), max_definition_len)

\* to_prompt_text that writes both property section headers unconditionally.
to_prompt_text_fixed_headers(subset, max_definition_len, class_order, property_order) ==
  LET header == << "# gist Schema (subset)",
                   "Prefix: gist",
                   "Namespace: https://w3id.org/semanticarts/ns/ontology/gist/",
                   "",
                   "## Classes",
                   "" >>
      roots == Roots(subset, class_order)
      obj_props == SelectSeq(property_order,
                             LAMBDA p : p \in DOMAIN properties
                                          /\ properties[p].is_object_property)
      data_props == SelectSeq(property_order,
                              LAMBDA p : p \in DOMAIN properties
                                           /\ ~properties[p].is_object_property)
      lines ==
        header
          \o FormatRoots(subset, max_definition_len, SortedList(roots), {})
          \o << "", "## Object Properties", "" >>
          \o PropertySection(SortedList(obj_props), max_definition_len)
          \o << "## Datatype Properties", "" >>
          \o PropertySection(SortedList(data_props), max_definition_len)
  IN  Join("\n", lines)

\* SchemaSubset.to_prompt_text.  class_order and property_order are the
\* orders in which the sets class_names and property_names are iterated.
to_prompt_text(subset, max_definition_len, class_order, property_order) ==
  LET header == << "# gist Schema (subset)",
                   "Prefix: gist",
                   "Namespace: https://w3id.org/semanticarts/ns/ontology/gist/",
                   "",
                   "## Classes",
                   "" >>
      roots == Roots(subset, class_order)
      obj_props == SelectSeq(property_order,
                             LAMBDA p : p \in DOMAIN properties
                                          /\ properties[p].is_object_property)
      data_props == SelectSeq(property_order,
                              LAMBDA p : p \in DOMAIN properties
                                           /\ ~properties[p].is_object_property)
      lines ==
        header
          \o FormatRoots(subset, max_definition_len, SortedList(roots), {})
          \o (IF obj_props # << >>
              THEN << "", "## Object Properties", "" >>
                     \o PropertySection(SortedList(obj_props), max_definition_len)
              ELSE << >>)
          \o (IF data_props # << >>
              THEN << "## Datatype Properties", "" >>
                     \o PropertySection(SortedList(data_props), max_definition_len)
              ELSE << >>)
  IN  Join("\n", lines)

\* SchemaSubset.stats
stats(subset) ==
  LET obj_props == Cardinality({p \in subset.property_names :
                                  p \in DOMAIN properties
                                    /\ properties[p].is_object_property})
  IN  [classes |-> Cardinality(subset.class_names),
       object_properties |-> obj_props,
       datatype_properties |-> Cardinality(subset.property_names) - obj_props]

-----------------------------------------------------------------------------
(* The ontology documents of the model *)

PropNames == {"isPartOf", "occursIn"}

ClassNode(l) == << GIST, l >>
PropNode(l) == << GIST, l >>

XsdString == << "xsd", "string" >>

\* rdfs:Literal: a named datatype of neither the ontology nor XML Schema.
RdfsLiteral == << "ext", "Literal" >>

RECURSIVE Picks(_, _)
\* The ascending lists of k indices among 1..n.
Picks(n, k) ==
  IF k = 0 THEN {<< >>}
  ELSE UNION {{Append(q, x) : x \in (IF q = << >> THEN 1 ELSE q[Len(q)] + 1)..n} :
              q \in Picks(n, k - 1)}

\* The class declarations of a document: every class, or all but Event.
DeclaredChoices == {ClassNames, ClassNames \ {"Event"}}

\* The property triples a document may hold: the typing of the two
\* properties, and domain, range and subPropertyOf triples.
PropertyTriples ==
  << << PropNode("occursIn"), RDF_type, OWL_ObjectProperty >>,
     << PropNode("occursIn"), RDF_type, OWL_DatatypeProperty >>,
     << PropNode("isPartOf"), RDF_type, OWL_ObjectProperty >>,
     << PropNode("occursIn"), RDFS_domain, ClassNode("Event") >>,
     << PropNode("occursIn"), RDFS_domain, ClassNode("Thing") >>,
     << PropNode("occursIn"), RDFS_range, ClassNode("Event") >>,
     << PropNode("occursIn"), RDFS_range, ClassNode("Landmark") >>,
     << PropNode("occursIn"), RDFS_range, XsdString >>,
     << PropNode("occursIn"), RDFS_subPropertyOf, PropNode("isPartOf") >>,
     << PropNode("isPartOf"), RDFS_subPropertyOf, PropNode("occursIn") >> >>

\* The subClassOf triples a document may hold: any edge between class names.
SubClassTriples ==
  LET names == SetToSeq(ClassNames)
      n == Len(names)
  IN  [i \in 1..(n * n) |->
         << ClassNode(names[((i - 1) \div n) + 1]), RDFS_subClassOf,
            ClassNode(names[((i - 1) % n) + 1]) >>]

\* The relational triples a document may hold.
RelationalTriples == SubClassTriples \o PropertyTriples

\* Every relational triple of the document R is about a class of D or a
\* property that R declares.
SubjectsDeclared(D, R) ==
  \A t \in R :
    /\ t[2] = RDFS_subClassOf => _get_local_name(t[1]) \in D
    /\ t[2] \in {RDFS_domain, RDFS_range, RDFS_subPropertyOf}
         => \E u \in R : u[1] = t[1] /\ u[2] = RDF_type

\* Class declarations and annotations of a document declaring D.
ClassTriples(D) ==
  {<< ClassNode(c), RDF_type, OWL_Class >> : c \in D}
    \cup {<< ClassNode(c), SKOS_definition, << "lit", "Something that happens" >> >> :
            c \in D \cap {"Event"}}
    \cup {<< ClassNode(c), SKOS_definition, << "lit", "Rare" >> >> :
            c \in D \cap {"SpecialEvent"}}
    \cup {<< ClassNode(c), OWL_equivalentClass, << "bnode", "b1" >> >> :
            c \in D \cap {"SpecialEvent"}}

\* The annotations of the properties the relational triples R declare.
PropertyAnnotations(R) ==
  {<< PropNode("occursIn"), SKOS_definition, << "lit", "Where it takes place" >> >> :
     t \in {u \in R : u[1] = PropNode("occursIn") /\ u[2] = RDF_type}}

\* The relational triples at the indices q.
TriplesAt(q) == {RelationalTriples[q[i]] : i \in DOMAIN q}

\* graph is a document of the model: the declarations of some D, at most
\* MaxTriples relational triples with declared subjects, and annotations.
IsOntology(graph) ==
  \E D \in DeclaredChoices, k \in 0..MaxTriples :
    \E q \in Picks(Len(RelationalTriples), k) :
      /\ SubjectsDeclared(D, TriplesAt(q))
      /\ graph = ClassTriples(D) \cup TriplesAt(q) \cup PropertyAnnotations(TriplesAt(q))

-----------------------------------------------------------------------------
(* Requests *)

TopicNames == {"events", "geo", "sports"}

\* The class names a caller asks about.
CallerClasses == ClassNames \cup {UnknownClass}

\* The class names of a subset_by_classes request.
RequestClasses == {"Event", "Thing", UnknownClass}

RECURSIVE SeqsUpTo(_, _)
\* The lists over S of length at most n.
SeqsUpTo(S, n) ==
  IF n = 0 THEN {<< >>}
  ELSE LET shorter == SeqsUpTo(S, n - 1)
       IN  shorter \cup {Append(q, x) : q \in shorter, x \in S}

-----------------------------------------------------------------------------
(* State machine *)

\* GistSchema.__init__: the document is parsed and both registries built.
Init ==
  /\ IsOntology(g)
  /\ classes = _extract_classes(g)
  /\ properties = _extract_properties(g)
  /\ op = "idle"
  /\ args = << >>
  /\ result = {}
  /\ frame = << >>
  /\ articles_dir = << >>
  /\ output_file = None

\* get_ancestors whose stack is the class's own superclass list instead of a
\* copy of it: the loop pops that list empty.
GetAncestors_aliased ==
  /\ op = "idle"
  /\ \E class_name \in CallerClasses :
       /\ op' = "get_ancestors"
       /\ args' = << class_name >>
       /\ result' = get_ancestors(class_name)
       /\ classes' = IF class_name \in DOMAIN classes
                     THEN [classes EXCEPT ![class_name].superclasses = << >>]
                     ELSE classes
  /\ UNCHANGED << g, properties, frame, articles_dir, output_file >>

GetAncestors ==
  /\ op = "idle"
  /\ \E class_name \in CallerClasses :
       /\ op' = "get_ancestors"
       /\ args' = << class_name >>
       /\ result' = get_ancestors(class_name)
  /\ UNCHANGED << g, classes, properties, frame, articles_dir, output_file >>

GetDescendants ==
  /\ op = "idle"
  /\ \E class_name \in CallerClasses, max_depth \in 0..MaxDepth :
       /\ op' = "get_descendants"
       /\ args' = << class_name, max_depth >>
       /\ result' = get_descendants(class_name, max_depth)
  /\ UNCHANGED << g, classes, properties, frame, articles_dir, output_file >>

GetPropertyAncestors ==
  /\ op = "idle"
  /\ \E prop_name \in PropNames :
       /\ op' = "get_property_ancestors"
       /\ args' = << prop_name >>
       /\ result' = get_property_ancestors(prop_name)
  /\ UNCHANGED << g, classes, properties, frame, articles_dir, output_file >>

SubsetByTopics ==
  /\ op = "idle"
  /\ \E topics \in SeqsUpTo(TopicNames, MaxRequest), include_descendants \in BOOLEAN :
       /\ op' = "subset_by_topics"
       /\ args' = << topics, include_descendants >>
       /\ result' = subset_by_topics(topics, include_descendants)
  /\ UNCHANGED << g, classes, properties, frame, articles_dir, output_file >>

\* The class-name lists of a request: short lists, and a topic's seed list.
ClassRequests ==
  SeqsUpTo(RequestClasses, MaxRequest)
    \cup {TOPIC_SEEDS[t] : t \in TopicNames \cap DOMAIN TOPIC_SEEDS}

SubsetByClasses ==
  /\ op = "idle"
  /\ \E class_names \in ClassRequests :
       /\ op' = "subset_by_classes"
       /\ args' = << class_names >>
       /\ result' = subset_by_classes(class_names)
  /\ UNCHANGED << g, classes, properties, frame, articles_dir, output_file >>

\* The subsets a caller holds: those the two subset operations return.
SubsetViews ==
  {subset_by_topics(topics, d) :
     topics \in SeqsUpTo(TopicNames, MaxRequest), d \in BOOLEAN}
    \cup {subset_by_classes(class_names) : class_names \in ClassRequests}

\* The max_definition_len values of a request.
DefinitionLens == {0, 4, DefaultMaxDefinitionLen}

RECURSIVE IterationOrders(_)
\* The orders in which a Python set of names may be iterated.
IterationOrders(S) ==
  IF S = {} THEN {<< >>}
  ELSE UNION {{<< x >> \o q : q \in IterationOrders(S \ {x})} : x \in S}

ToPromptText ==
  /\ op = "idle"
  /\ \E subset \in SubsetViews, max_definition_len \in DefinitionLens :
       \E class_order \in IterationOrders(subset.class_names),
          property_order \in IterationOrders(subset.property_names) :
         /\ op' = "to_prompt_text"
         /\ args' = << subset, max_definition_len >>
         /\ result' = to_prompt_text(subset, max_definition_len,
                                     class_order, property_order)
  /\ UNCHANGED << g, classes, properties, frame, articles_dir, output_file >>

Stats ==
  /\ op = "idle"
  /\ \E subset \in SubsetViews :
       /\ op' = "stats"
       /\ args' = << subset >>
       /\ result' = stats(subset)
  /\ UNCHANGED << g, classes, properties, frame, articles_dir, output_file >>

\* The caller drops the value returned.
Return ==
  /\ op # "idle"
  /\ op' = "idle"
  /\ args' = << >>
  /\ result' = {}
  /\ UNCHANGED << g, classes, properties, frame, articles_dir, output_file >>

-----------------------------------------------------------------------------
(* The closure traversals, one loop iteration at a time.  While a call runs, *)
(* op is "running" and frame holds its local variables.                     *)

\* The direct-parent lists the running traversal walks.
UpEdges ==
  IF frame.method = "get_ancestors"
  THEN [c \in DOMAIN classes |-> classes[c].superclasses]
  ELSE [p \in DOMAIN properties |-> properties[p].superproperties]

\* get_ancestors up to its while loop.
CallGetAncestors ==
  /\ op = "idle"
  /\ \E class_name \in CallerClasses :
       /\ args' = << class_name >>
       /\ IF class_name \notin DOMAIN classes
          THEN op' = "get_ancestors" /\ result' = {} /\ frame' = << >>
          ELSE /\ op' = "running"
               /\ result' = {}
               /\ frame' = [method |-> "get_ancestors",
                            to_visit |-> classes[class_name].superclasses,
                            ancestors |-> {}]
  /\ UNCHANGED << g, classes, properties, articles_dir, output_file >>

\* get_property_ancestors up to its while loop.
CallGetPropertyAncestors ==
  /\ op = "idle"
  /\ \E prop_name \in PropNames :
       /\ args' = << prop_name >>
       /\ IF prop_name \notin DOMAIN properties
          THEN op' = "get_property_ancestors" /\ result' = {} /\ frame' = << >>
          ELSE /\ op' = "running"
               /\ result' = {}
               /\ frame' = [method |-> "get_property_ancestors",
                            to_visit |-> properties[prop_name].superproperties,
                            ancestors |-> {}]
  /\ UNCHANGED << g, classes, properties, articles_dir, output_file >>

\* get_descendants up to its for loop.
CallGetDescendants ==
  /\ op = "idle"
  /\ \E class_name \in CallerClasses, max_depth \in 0..MaxDepth :
       /\ args' = << class_name, max_depth >>
       /\ IF class_name \notin DOMAIN classes
          THEN op' = "get_descendants" /\ result' = {} /\ frame' = << >>
          ELSE /\ op' = "running"
               /\ result' = {}
               /\ frame' = [method |-> "get_descendants",
                            current_level |-> Range(classes[class_name].subclasses),
                            descendants |-> {},
                            remaining |-> max_depth]
  /\ UNCHANGED << g, classes, properties, articles_dir, output_file >>

\* `while to_visit:` -- one iteration.
WhileToVisit ==
  /\ op = "running"
  /\ frame.method \in {"get_ancestors", "get_property_ancestors"}
  /\ frame.to_visit # << >>
  /\ LET next == AncestorsStep(UpEdges, frame.to_visit, frame.ancestors)
     IN  frame' = [frame EXCEPT !.to_visit = next.to_visit,
                                !.ancestors = next.ancestors]
  /\ UNCHANGED << g, classes, properties, op, args, result,
                  articles_dir, output_file >>

\* `return ancestors`, once the stack is empty.
ReturnAncestors ==
  /\ op = "running"
  /\ frame.method \in {"get_ancestors", "get_property_ancestors"}
  /\ frame.to_visit = << >>
  /\ op' = frame.method
  /\ result' = frame.ancestors
  /\ frame' = << >>
  /\ UNCHANGED << g, classes, properties, args, articles_dir, output_file >>

\* `for _ in range(max_depth):` -- one iteration.
ForDepth ==
  /\ op = "running"
  /\ frame.method = "get_descendants"
  /\ frame.remaining > 0
  /\ LET next == DescendantsStep(frame.current_level, frame.descendants,
                                 frame.remaining)
     IN  frame' = [frame EXCEPT !.current_level = next.current_level,
                                !.descendants = next.descendants,
                                !.remaining = next.remaining]
  /\ UNCHANGED << g, classes, properties, op, args, result,
                  articles_dir, output_file >>

\* `return descendants`, once range(max_depth) is used up.
ReturnDescendants ==
  /\ op = "running"
  /\ frame.method = "get_descendants"
  /\ frame.remaining <= 0
  /\ op' = "get_descendants"
  /\ result' = frame.descendants
  /\ frame' = << >>
  /\ UNCHANGED << g, classes, properties, args, articles_dir, output_file >>

NextTraversal ==
  \/ CallGetAncestors
  \/ CallGetPropertyAncestors
  \/ CallGetDescendants
  \/ WhileToVisit
  \/ ReturnAncestors
  \/ ForDepth
  \/ ReturnDescendants
  \/ Return

\* A call that has started keeps executing: the interpreter runs the loop
\* body while its condition holds and the return statement after it.
SpecTraversal ==
  /\ Init
  /\ [][NextTraversal]_vars
  /\ WF_vars(WhileToVisit)
  /\ WF_vars(ReturnAncestors)
  /\ WF_vars(ForDepth)
  /\ WF_vars(ReturnDescendants)

NextSession ==
  \/ GetAncestors
  \/ GetDescendants
  \/ GetPropertyAncestors
  \/ SubsetByTopics
  \/ SubsetByClasses
  \/ ToPromptText
  \/ Stats
  \/ Return

\* Any sequence of calls on one loaded schema.
SpecSession == Init /\ [][NextSession]_vars

NextClosure == GetAncestors \/ GetDescendants \/ GetPropertyAncestors \/ Return

NextTopics == SubsetByTopics \/ Return

NextClasses == SubsetByClasses \/ Return

NextSubset == SubsetByTopics \/ SubsetByClasses \/ Return

NextRender == ToPromptText \/ Return

SpecClosure == Init /\ [][NextClosure]_vars

SpecTopics == Init /\ [][NextTopics]_vars

SpecClasses == Init /\ [][NextClasses]_vars

SpecSubset == Init /\ [][NextSubset]_vars

SpecRender == Init /\ [][NextRender]_vars


-----------------------------------------------------------------------------
(* The hierarchy as a relation, for stating the properties *)

\* b is a direct superclass of a, both classes of the model.
SuperEdge(a, b) ==
  /\ a \in DOMAIN classes
  /\ b \in DOMAIN classes
  /\ b \in Range(classes[a].superclasses)

RECURSIVE UpWithin(_, _)
\* The classes reached from the set S by 1..n direct-superclass edges.
UpWithin(S, n) ==
  IF n = 0 THEN {}
  ELSE LET step == {b \in DOMAIN classes : \E a \in S : SuperEdge(a, b)}
       IN  step \cup UpWithin(step, n - 1)

\* The classes reached from S by a chain of one or more superclass edges.
Above(S) == UpWithin(S, Cardinality(DOMAIN classes))

RECURSIVE DownWithin(_, _)
\* The classes 1..n hierarchy levels below a class of the set S.
DownWithin(S, n) ==
  IF n = 0 THEN {}
  ELSE LET step == {a \in DOMAIN classes : \E b \in S : SuperEdge(a, b)}
       IN  step \cup DownWithin(step, n - 1)

\* The classes any number of levels below a class of S.
Below(S) == DownWithin(S, Cardinality(DOMAIN classes))

\* The seed classes of the topic list that exist in the model.
ExistingSeeds(topics) ==
  {name \in DOMAIN classes :
     \E i \in DOMAIN topics :
       /\ topics[i] \in DOMAIN TOPIC_SEEDS
       /\ name \in Range(TOPIC_SEEDS[topics[i]])}

-----------------------------------------------------------------------------
-----------------------------------------------------------------------------
(* The reasons a property is in a subset, for stating the properties *)

\* q is a direct superproperty of p, both properties of the model.
SuperPropEdge(p, q) ==
  /\ p \in DOMAIN properties
  /\ q \in DOMAIN properties
  /\ q \in Range(properties[p].superproperties)

RECURSIVE PropUpWithin(_, _)
\* The properties reached from the set S by 1..n superproperty edges.
PropUpWithin(S, n) ==
  IF n = 0 THEN {}
  ELSE LET step == {q \in DOMAIN properties : \E p \in S : SuperPropEdge(p, q)}
       IN  step \cup PropUpWithin(step, n - 1)

\* The properties reached from S by a chain of one or more superproperty edges.
PropAbove(S) == PropUpWithin(S, Cardinality(DOMAIN properties))

\* The topic list of the running subset request (subset_by_classes has none).
RequestedTopics == IF op = "subset_by_topics" THEN args[1] ELSE << >>

\* The model properties associated with a requested topic.
TopicAssociated ==
  {p \in DOMAIN properties :
     \E i \in DOMAIN RequestedTopics :
       /\ RequestedTopics[i] \in DOMAIN TOPIC_PROPERTIES
       /\ p \in Range(TOPIC_PROPERTIES[RequestedTopics[i]])}

DomainIn(p, S) == \E d \in Range(properties[p].domains) : d \in S

RangeIn(p, S) == \E r \in Range(properties[p].ranges) : r \in S

\* The properties the returned subset holds for a reason of their own: a
\* topic association, a domain in the class set or, for an object property,
\* a range in the class set.
DirectlySelected ==
  {p \in DOMAIN properties :
     \/ p \in TopicAssociated
     \/ DomainIn(p, result.class_names)
     \/ properties[p].is_object_property /\ RangeIn(p, result.class_names)}

-----------------------------------------------------------------------------
(* Reading a rendered text, for stating the properties *)

\* The positions of the line breaks of a text.
LineBreaks(text) == {i \in 1..Len(text) : SubSeq(text, i, i) = "\n"}

RECURSIVE LinesFrom(_, _, _)
\* The lines of the text from position start on, given its line breaks.
LinesFrom(text, breaks, start) ==
  LET later == {b \in breaks : b >= start}
  IN  IF later = {} THEN << SubSeq(text, start, Len(text)) >>
      ELSE LET b == CHOOSE b \in later : \A c \in later : b <= c
           IN  << SubSeq(text, start, b - 1) >> \o LinesFrom(text, breaks, b + 1)

\* Python's text.split("\n").
Lines(text) == LinesFrom(text, LineBreaks(text), 1)

RECURSIVE Stripped(_)
\* A line without its leading spaces.
Stripped(line) ==
  IF Len(line) > 0 /\ SubSeq(line, 1, 1) = " "
  THEN Stripped(SubSeq(line, 2, Len(line)))
  ELSE line

\* The subset has no class and no property.
IsEmptySubset(subset) == subset.class_names = {} /\ subset.property_names = {}

\* The text of a document with no entry under its only header, "Classes".
EmptyDocument ==
  "# gist Schema (subset)\nPrefix: gist\nNamespace: https://w3id.org/semanticarts/ns/ontology/gist/\n\n## Classes\n"

-----------------------------------------------------------------------------
(* Closure engine properties *)

\* C1: get_ancestors(D) contains every model class C that D reaches through
\* a chain of one or more direct-superclass edges between model classes.
C1_AncestorsTransitive ==
  op = "get_ancestors" => Above({args[1]}) \subseteq result

\* C1 witness: an ancestor that is not a direct superclass was returned.
C1_Witness ==
  /\ op = "get_ancestors"
  /\ \E c \in result : ~SuperEdge(args[1], c) /\ c # args[1]

\* C2: get_descendants(C, k) contains no class more than k levels below C.
C2_DescendantsWithinDepth ==
  (op = "get_descendants" /\ args[1] \in DOMAIN classes) => result \subseteq DownWithin({args[1]}, args[2])

\* C2 witness: with k >= 1 something was returned, and a class deeper than
\* k levels below C was left out.
C2_Witness ==
  /\ op = "get_descendants"
  /\ args[2] >= 1
  /\ result # {}
  /\ Below({args[1]}) \ (result \cup {args[1]}) # {}

\* C3 as stated: get_descendants(C, k) is a strict subset of
\* get_descendants(C, k + 1).
C3_StrictSubset ==
  (op = "get_descendants" /\ args[1] \in DOMAIN classes) =>
    /\ result \subseteq get_descendants(args[1], args[2] + 1)
    /\ result # get_descendants(args[1], args[2] + 1)

\* C3 amended: get_descendants(C, k) is a subset of get_descendants(C, k + 1),
\* and the two differ exactly when some class lies k + 1 levels below C but
\* not within k levels.
C3_Subset ==
  (op = "get_descendants" /\ args[1] \in DOMAIN classes) =>
    /\ result \subseteq get_descendants(args[1], args[2] + 1)
    /\ (result # get_descendants(args[1], args[2] + 1))
         <=> (DownWithin({args[1]}, args[2] + 1) # DownWithin({args[1]}, args[2]))

\* C3 witness: a request with k >= 1 that returned classes and to which
\* one more level adds a class.
C3_Witness ==
  /\ op = "get_descendants"
  /\ args[2] >= 1
  /\ result # {}
  /\ result # get_descendants(args[1], args[2] + 1)


-----------------------------------------------------------------------------
(* Topic subsetter properties *)

\* C4: every seed class of a requested topic that exists in the model is in
\* the class set subset_by_topics returns, with or without descendants.
C4_SeedsSelected ==
  op = "subset_by_topics" => ExistingSeeds(args[1]) \subseteq result.class_names

\* C4 witness: a single-topic request, without descendants, one of whose
\* seeds exists and one of whose seeds does not.
C4_Witness ==
  /\ op = "subset_by_topics"
  /\ Len(args[1]) = 1
  /\ ~args[2]
  /\ ExistingSeeds(args[1]) # {}
  /\ Range(TOPIC_SEEDS[args[1][1]]) \ DOMAIN classes # {}
  /\ result.class_names # ExistingSeeds(args[1])

\* C6: for a topic T, subset_by_topics([T], include_descendants=False) and
\* subset_by_classes(TOPIC_SEEDS[T]) select the same class set.
C6_TopicsAgreeWithClasses ==
  (/\ op = "subset_by_topics"
   /\ Len(args[1]) = 1
   /\ args[1][1] \in DOMAIN TOPIC_SEEDS
   /\ ~args[2])
    => result.class_names = subset_by_classes(TOPIC_SEEDS[args[1][1]]).class_names

\* C6 witness: such a request whose class set holds a seed and an ancestor
\* that is no seed.
C6_Witness ==
  /\ op = "subset_by_topics"
  /\ Len(args[1]) = 1
  /\ args[1][1] \in DOMAIN TOPIC_SEEDS
  /\ ~args[2]
  /\ ExistingSeeds(args[1]) # {}
  /\ Above(ExistingSeeds(args[1])) \ ExistingSeeds(args[1]) # {}

\* The named classes of a subset_by_classes request that exist in the model.
Named(class_names) == Range(class_names) \cap DOMAIN classes

\* C7: subset_by_classes(names) returns exactly the named classes that exist
\* together with all their ancestors; a class that is only a descendant of a
\* named class is left out.
C7_NamedAndAncestorsOnly ==
  op = "subset_by_classes" =>
    result.class_names = Named(args[1]) \cup Above(Named(args[1]))

\* C7 witness: a named class with an ancestor that was added and a
\* descendant that was left out.
C7_Witness ==
  /\ op = "subset_by_classes"
  /\ \E n \in Named(args[1]) :
       /\ Above({n}) \ Named(args[1]) # {}
       /\ Below({n}) \ result.class_names # {}

\* C8: with include_descendants, subset_by_topics includes every model class
\* one or two subclass levels below a seed class that exists in the model.
C8_SeedDescendantsIncluded ==
  (op = "subset_by_topics" /\ args[2]) =>
    DownWithin(ExistingSeeds(args[1]), 2) \subseteq result.class_names

\* C8 witness: a class two levels below a seed, neither a seed, an ancestor
\* of a seed nor one level below a seed, was included.
C8_Witness ==
  /\ op = "subset_by_topics"
  /\ args[2]
  /\ \E c \in result.class_names :
       /\ c \in DownWithin(ExistingSeeds(args[1]), 2)
       /\ c \notin DownWithin(ExistingSeeds(args[1]), 1)
       /\ c \notin ExistingSeeds(args[1]) \cup Above(ExistingSeeds(args[1]))

\* C9: with include_descendants, the class set of subset_by_topics is exactly
\* seeds, ancestors of seeds and classes within two levels below a seed: the
\* descendants of an added ancestor are not expanded.
C9_OnlySeedsDescend ==
  (op = "subset_by_topics" /\ args[2]) =>
    result.class_names =
      ExistingSeeds(args[1]) \cup Above(ExistingSeeds(args[1]))
        \cup DownWithin(ExistingSeeds(args[1]), 2)

\* C9 witness: a class one level below an added ancestor was left out.
C9_Witness ==
  /\ op = "subset_by_topics"
  /\ args[2]
  /\ \E a \in Above(ExistingSeeds(args[1])) \ ExistingSeeds(args[1]) :
       DownWithin({a}, 1) \ result.class_names # {}

\* C10: in the result of subset_by_topics and of subset_by_classes, every
\* property with a domain class in the class set is selected, and every
\* object property with a range class in the class set is selected.
C10_RelevantSelected ==
  op \in {"subset_by_topics", "subset_by_classes"} =>
    \A p \in DOMAIN properties :
      /\ (\E d \in Range(properties[p].domains) : d \in result.class_names)
           => p \in result.property_names
      /\ (/\ properties[p].is_object_property
          /\ \E r \in Range(properties[p].ranges) : r \in result.class_names)
           => p \in result.property_names

\* C10 witness: subset_by_classes selected an object property for its range
\* alone: none of its domains is in the class set.
C10_Witness ==
  /\ op = "subset_by_classes"
  /\ \E p \in result.property_names :
       /\ properties[p].is_object_property
       /\ \A d \in Range(properties[p].domains) : d \notin result.class_names
       /\ \E r \in Range(properties[p].ranges) : r \in result.class_names

-----------------------------------------------------------------------------
(* Renderer properties *)

\* C5: to_prompt_text returns the same text whatever the order in which the
\* class-name and property-name sets of the subset are iterated: a second
\* call, or a call on an equal subset, returns the text of the first.
C5_RenderDeterministic ==
  op = "to_prompt_text" =>
    \A class_order \in IterationOrders(args[1].class_names),
       property_order \in IterationOrders(args[1].property_names) :
      to_prompt_text(args[1], args[2], class_order, property_order) = result

\* C5 witness: a rendered subset with two root classes and two properties.
C5_Witness ==
  /\ op = "to_prompt_text"
  /\ Cardinality(args[1].property_names) >= 2
  /\ Cardinality({c \in args[1].class_names :
                    ~\E sup \in args[1].class_names : SuperEdge(c, sup)}) >= 2

-----------------------------------------------------------------------------
(* Property selection properties *)

\* C11: a datatype property is never selected because of its range: when none
\* of its domains is in the class set, it is not associated with a requested
\* topic and it is no superproperty ancestor of a selected property, it is
\* not in the subset, even if one of its range names is in the class set.
C11_DatatypeRangeIgnored ==
  op \in {"subset_by_topics", "subset_by_classes"} =>
    \A p \in DOMAIN properties :
      (/\ ~properties[p].is_object_property
       /\ ~DomainIn(p, result.class_names)
       /\ p \notin TopicAssociated
       /\ p \notin PropAbove(DirectlySelected))
        => p \notin result.property_names

\* C11 witness: a datatype property left out although one of its recorded
\* range names is a class of the returned class set.
C11_Witness ==
  /\ op \in {"subset_by_topics", "subset_by_classes"}
  /\ \E p \in DOMAIN properties :
       /\ ~properties[p].is_object_property
       /\ RangeIn(p, result.class_names)
       /\ p \notin result.property_names


\* A topic name that one of the seed tables knows.
KnownTopic(topic) == topic \in DOMAIN TOPIC_SEEDS \cup DOMAIN TOPIC_PROPERTIES

\* C12: unknown names are ignored: the subset of a request equals the subset
\* of the request without its unknown topic names (subset_by_topics) or
\* without the class names absent from the model (subset_by_classes); seed
\* names absent from the model are in neither set of the subset; and when
\* nothing resolves the subset has no class and no property.
C12_UnknownNamesIgnored ==
  /\ op = "subset_by_topics" =>
       /\ result = subset_by_topics(SelectSeq(args[1], KnownTopic), args[2])
       /\ (ExistingSeeds(args[1]) = {} /\ TopicAssociated = {})
            => result = SchemaSubset({}, {})
  /\ op = "subset_by_classes" =>
       /\ result = subset_by_classes(SelectSeq(args[1], LAMBDA c : c \in DOMAIN classes))
       /\ Named(args[1]) = {} => result = SchemaSubset({}, {})
  /\ op \in {"subset_by_topics", "subset_by_classes"} =>
       /\ result.class_names \subseteq DOMAIN classes
       /\ result.property_names \subseteq DOMAIN properties

\* C12 witness: a request naming an unknown topic and a known topic, one of
\* whose seed classes exists in the model while others do not.
C12_Witness ==
  /\ op = "subset_by_topics"
  /\ \E i \in DOMAIN args[1] : ~KnownTopic(args[1][i])
  /\ \E i \in DOMAIN args[1] :
       /\ args[1][i] \in DOMAIN TOPIC_SEEDS
       /\ Range(TOPIC_SEEDS[args[1][i]]) \cap DOMAIN classes # {}
       /\ Range(TOPIC_SEEDS[args[1][i]]) \ DOMAIN classes # {}
  /\ result.class_names # {}


-----------------------------------------------------------------------------
(* Renderer layout properties *)

\* C13 as stated: the text rendered for an empty subset holds the three
\* section headers of the layout: "Classes", "Object Properties" and
\* "Datatype Properties".
C13_EmptySubsetAllHeaders ==
  (op = "to_prompt_text" /\ IsEmptySubset(args[1])) =>
    /\ \E i \in DOMAIN Lines(result) : Lines(result)[i] = "## Classes"
    /\ \E i \in DOMAIN Lines(result) : Lines(result)[i] = "## Object Properties"
    /\ \E i \in DOMAIN Lines(result) : Lines(result)[i] = "## Datatype Properties"

\* C13 amended: rendering an empty subset returns the preamble and the
\* "Classes" header alone, with no entry below it and no property section
\* header: a property section header is written only when the subset has a
\* property of that kind.
C13_EmptySubsetClassesHeaderOnly ==
  (op = "to_prompt_text" /\ IsEmptySubset(args[1])) =>
    /\ result = EmptyDocument
    /\ \A i \in DOMAIN Lines(result) :
         Lines(result)[i] \notin {"## Object Properties", "## Datatype Properties"}

\* C13 witness: an empty subset was rendered.
C13_Witness ==
  /\ op = "to_prompt_text"
  /\ IsEmptySubset(args[1])
  /\ Len(result) > 0


-----------------------------------------------------------------------------
(* Termination of the closure traversals *)

\* The longest direct-parent list the running traversal can push.
MaxPush ==
  LET lens == {Len(UpEdges[n]) : n \in DOMAIN UpEdges}
  IN  IF lens = {} THEN 0 ELSE CHOOSE m \in lens : \A k \in lens : k <= m

\* What the running loop still has to do: for the while loops, the names not
\* yet visited weighed against the stack length; for the for loop, the
\* iterations left.
Measure ==
  IF frame.method = "get_descendants" THEN frame.remaining
  ELSE (Cardinality(DOMAIN UpEdges) - Cardinality(frame.ancestors)) * (MaxPush + 1)
         + Len(frame.to_visit)

\* The stepwise traversals compute what the closure operators return.
TraversalAgrees ==
  /\ op = "get_ancestors" => result = get_ancestors(args[1])
  /\ op = "get_property_ancestors" => result = get_property_ancestors(args[1])
  /\ op = "get_descendants" => result = get_descendants(args[1], args[2])

\* One more statement of the running call can execute.
CanStep == ENABLED (WhileToVisit \/ ReturnAncestors \/ ForDepth \/ ReturnDescendants)

\* A running call always returns, given that the interpreter keeps executing.
TraversalReturns == (op = "running") ~> (op # "running")

-----------------------------------------------------------------------------
(* Subset invariants *)

\* C15 as stated: the slice is self-contained: for every property of a
\* returned subset, each domain class, and for an object property each range
\* class, that is a class of the model is in the subset's class set.
C15_SelfContained ==
  op \in {"subset_by_topics", "subset_by_classes"} =>
    \A p \in result.property_names :
      /\ \A d \in Range(properties[p].domains) :
           d \in DOMAIN classes => d \in result.class_names
      /\ properties[p].is_object_property =>
           \A r \in Range(properties[p].ranges) :
             r \in DOMAIN classes => r \in result.class_names

\* C15 amended: every property of a returned subset is tied to the slice by
\* one link: it is associated with a requested topic, or one of its domain
\* classes (for an object property, or one of its range classes) is in the
\* class set, or it is a superproperty ancestor of such a property.  Its
\* other domain and range classes need not be in the class set.
C15_EveryPropertyLinked ==
  op \in {"subset_by_topics", "subset_by_classes"} =>
    result.property_names \subseteq DirectlySelected \cup PropAbove(DirectlySelected)

\* C15 witness: a property selected for a range class in the class set while
\* one of its domains, a class of the model, is outside the class set.
C15_Witness ==
  /\ op \in {"subset_by_topics", "subset_by_classes"}
  /\ \E p \in result.property_names :
       /\ properties[p].is_object_property
       /\ RangeIn(p, result.class_names)
       /\ \E d \in Range(properties[p].domains) :
            d \in DOMAIN classes /\ d \notin result.class_names


\* The list `up` of each entry transposed is the list `down`, for the names
\* that are entries of the registry.
Transposed(registry, up(_), down(_)) ==
  /\ \A a \in DOMAIN registry :
       \A b \in Range(up(registry[a])) :
         b \in DOMAIN registry => a \in Range(down(registry[b]))
  /\ \A b \in DOMAIN registry :
       \A a \in Range(down(registry[b])) :
         a \in DOMAIN registry /\ b \in Range(up(registry[a]))

Superclasses(info) == info.superclasses
Subclasses(info) == info.subclasses
Superproperties(info) == info.superproperties
Subproperties(info) == info.subproperties

\* C16 as stated: for every class A and every name B in A's superclass list,
\* B's subclass list contains A, and every subclass-list entry arises from
\* such an edge; likewise for superproperty and subproperty lists.
C16_Bidirectional ==
  /\ \A a \in DOMAIN classes :
       \A b \in Range(classes[a].superclasses) :
         b \in DOMAIN classes /\ a \in Range(classes[b].subclasses)
  /\ \A a \in DOMAIN properties :
       \A b \in Range(properties[a].superproperties) :
         b \in DOMAIN properties /\ a \in Range(properties[b].subproperties)
  /\ Transposed(classes, Superclasses, Subclasses)
  /\ Transposed(properties, Superproperties, Subproperties)

\* C16 amended: for every class A and every name B in A's superclass list
\* that is itself a class of the model, B's subclass list contains A, and
\* every subclass-list entry arises from such an edge; likewise for
\* properties.  A superclass or superproperty name of the ontology namespace
\* that is no entry of the model stays in the list and has no transposed edge.
C16_BidirectionalWithinModel ==
  /\ Transposed(classes, Superclasses, Subclasses)
  /\ Transposed(properties, Superproperties, Subproperties)

\* C16 witness: a model with a class edge recorded in both lists and a
\* superclass name that is no class of the model.
C16_Witness ==
  /\ \E a, b \in DOMAIN classes :
       b \in Range(classes[a].superclasses) /\ a \in Range(classes[b].subclasses)
  /\ \E a \in DOMAIN classes :
       \E b \in Range(classes[a].superclasses) : b \notin DOMAIN classes

\* A model with a property edge recorded in both lists is among those checked.
C16_PropertyEdgeSeen ==
  \E p, q \in DOMAIN properties :
    q \in Range(properties[p].superproperties) /\ p \in Range(properties[q].subproperties)

\* C17: the property set of a returned subset is closed under superproperty:
\* every model property reached from a selected property through
\* superproperty edges is selected too.
C17_ClosedUnderSuperproperty ==
  op \in {"subset_by_topics", "subset_by_classes"} =>
    PropAbove(result.property_names) \subseteq result.property_names

\* C17 witness: a property that is in the subset only as a superproperty of
\* a selected property.
C17_Witness ==
  /\ op \in {"subset_by_topics", "subset_by_classes"}
  /\ \E p \in result.property_names :
       /\ p \notin DirectlySelected
       /\ \E q \in DirectlySelected : SuperPropEdge(q, p)


-----------------------------------------------------------------------------
(* Frame properties *)

\* C18: the model is read-only after construction: no call of get_ancestors,
\* get_descendants, get_property_ancestors, subset_by_topics,
\* subset_by_classes, to_prompt_text or stats changes the graph, a class
\* entry or a property entry of the GistSchema.
C18_ModelReadOnly ==
  [][g' = g /\ classes' = classes /\ properties' = properties]_vars

\* C18 witness: a traversal that walked the superclass lists has returned, on
\* a model whose registries are still the ones built from the graph.
C18_Witness ==
  /\ op = "get_ancestors"
  /\ result # {}
  /\ classes = _extract_classes(g)
  /\ properties = _extract_properties(g)


-----------------------------------------------------------------------------
(* Renderer entry properties *)

\* The lines of the Classes section of a rendered text: those before the
\* first property section header.
RECURSIVE UpToPropertyHeader(_)
UpToPropertyHeader(lines) ==
  IF lines = << >> \/ Head(lines) \in {"## Object Properties", "## Datatype Properties"}
  THEN << >>
  ELSE << Head(lines) >> \o UpToPropertyHeader(Tail(lines))

ClassSection(text) == UpToPropertyHeader(Lines(text))

\* The line is the entry line of the class or property `name`.
IsEntryLine(line, name) ==
  Stripped(line) \in {"gist:" \o name, "gist:" \o name \o " [defined]"}

\* The positions of the entry lines of `name` among `lines`.
EntryLines(lines, name) == {i \in DOMAIN lines : IsEntryLine(lines[i], name)}

\* C19: to_prompt_text never renders the same class twice in the Classes
\* section, also when the class has several parents or is reached from
\* several roots.
C19_ClassRenderedOnce ==
  op = "to_prompt_text" =>
    LET section == ClassSection(result)
    IN  \A c \in args[1].class_names :
          Cardinality(EntryLines(section, c)) <= 1

\* C19 witness: a rendered class with two parents in the subset that are
\* reached from two different roots.
C19_Witness ==
  /\ op = "to_prompt_text"
  /\ \E c \in args[1].class_names :
       /\ Cardinality(EntryLines(ClassSection(result), c)) = 1
       /\ \E r1, r2 \in args[1].class_names :
            /\ r1 # r2
            /\ SuperEdge(c, r1) /\ SuperEdge(c, r2)
            /\ ~\E s \in args[1].class_names : SuperEdge(r1, s)
            /\ ~\E s \in args[1].class_names : SuperEdge(r2, s)


\* What a definition is to be emitted as: itself when it has at most n
\* characters, else its first n characters and the marker "...".
EmittedDefinition(definition, n) ==
  IF Len(definition) <= n THEN definition ELSE SubSeq(definition, 1, n) \o "..."

\* In `lines`, every entry line of `name` is followed by the line of the
\* definition of `info`, emitted for the limit n.
DefinitionFollows(lines, name, info, n) ==
  \A i \in EntryLines(lines, name) :
    /\ i + 1 \in DOMAIN lines
    /\ Stripped(lines[i + 1]) = EmittedDefinition(info.definition[1], n)

\* C20: for every rendered class or property that has a definition, and
\* every max_definition_len >= 0: a definition of at most max_definition_len
\* characters is emitted unchanged, a longer one as its first
\* max_definition_len characters followed by "...".
C20_DefinitionTruncation ==
  op = "to_prompt_text" =>
    LET lines == Lines(result)
        section == UpToPropertyHeader(lines)
    IN  /\ args[2] >= 0
        /\ \A c \in args[1].class_names \cap DOMAIN classes :
             HasDefinition(classes[c])
               => DefinitionFollows(section, c, classes[c], args[2])
        /\ \A p \in args[1].property_names \cap DOMAIN properties :
             HasDefinition(properties[p])
               => DefinitionFollows(lines, p, properties[p], args[2])

\* C20 witness: one text holds a class definition of exactly
\* max_definition_len characters, emitted unchanged, and a longer class
\* definition and a longer property definition, both cut and marked.
C20_Witness ==
  /\ op = "to_prompt_text"
  /\ \E i \in DOMAIN Lines(result) : Stripped(Lines(result)[i]) = "Rare"
  /\ \E i \in DOMAIN Lines(result) : Stripped(Lines(result)[i]) = "Some..."
  /\ \E i \in DOMAIN Lines(result) : Stripped(Lines(result)[i]) = "Wher..."


-----------------------------------------------------------------------------
(* Documents about a datatype property *)

\* The triples a document may hold about the datatype property occursIn,
\* besides its typing as owl:DatatypeProperty.
DatatypeTriples ==
  << << PropNode("occursIn"), RDFS_domain, ClassNode("Event") >>,
     << PropNode("occursIn"), RDFS_range, XsdString >>,
     << PropNode("occursIn"), RDFS_range, RdfsLiteral >>,
     << PropNode("occursIn"), RDFS_range, ClassNode("Landmark") >>,
     << ClassNode("SpecialEvent"), RDFS_subClassOf, ClassNode("Event") >> >>

\* graph is a document that declares the classes of some D and occursIn as a
\* datatype property with some of the triples above.
IsDatatypeOntology(graph) ==
  \E D \in DeclaredChoices, S \in SUBSET Range(DatatypeTriples) :
    LET R == {<< PropNode("occursIn"), RDF_type, OWL_DatatypeProperty >>} \cup S
    IN  graph = ClassTriples(D) \cup R \cup PropertyAnnotations(R)

\* The state after GistSchema(path) on such a document.
InitDatatypes ==
  /\ IsDatatypeOntology(g)
  /\ classes = _extract_classes(g)
  /\ properties = _extract_properties(g)
  /\ op = "idle"
  /\ args = << >>
  /\ result = {}
  /\ frame = << >>
  /\ articles_dir = << >>
  /\ output_file = None

SpecDatatypes == InitDatatypes /\ [][NextRender]_vars

-----------------------------------------------------------------------------
(* Datatype ranges outside the ontology namespace *)

\* needle occurs in line.
Contains(line, needle) ==
  \E i \in 1..(Len(line) - Len(needle) + 1) :
    SubSeq(line, i, i + Len(needle) - 1) = needle

\* entry is the local name of node r behind a type prefix such as "xsd:".
IsTagged(entry, r) ==
  LET local == _get_local_name(r)
      cut == Len(entry) - Len(local)
  IN  /\ cut > 1
      /\ SubSeq(entry, cut + 1, Len(entry)) = local
      /\ SubSeq(entry, cut, cut) = ":"

\* The ranges a datatype property declares outside the ontology namespace.
OutsideRanges(p) ==
  {r \in Objects(g, properties[p].uri, RDFS_range) :
     ~IsBNode(r) /\ ~InOntologyNamespace(r)}

\* C21: after the model is built, every range of a datatype property that
\* lies outside the ontology namespace is an entry of the property's range
\* list behind a primitive-type prefix, its bare local name is not an entry,
\* and no line of a rendered text names it with the ontology prefix.
C21_OutsideRangesTagged ==
  \A p \in DOMAIN properties :
    ~properties[p].is_object_property =>
      \A r \in OutsideRanges(p) :
        /\ \E i \in DOMAIN properties[p].ranges :
             IsTagged(properties[p].ranges[i], r)
        /\ _get_local_name(r) \notin Range(properties[p].ranges)
        /\ (op = "to_prompt_text" /\ p \in args[1].property_names)
             => \A i \in DOMAIN Lines(result) :
                  ~Contains(Lines(result)[i], "gist:" \o _get_local_name(r))


-----------------------------------------------------------------------------
(* Property kinds *)

\* C22: every object-property declaration the build retains has an entry of
\* the registry that is an object property, and every datatype-property
\* declaration has an entry that is a datatype property, also when the two
\* declarations share a local name: neither overwrites the other.
C22_BothKindsRetained ==
  /\ \A n \in Retained(g, OWL_ObjectProperty) :
       \E p \in DOMAIN properties :
         properties[p].uri = n /\ properties[p].is_object_property
  /\ \A n \in Retained(g, OWL_DatatypeProperty) :
       \E p \in DOMAIN properties :
         properties[p].uri = n /\ ~properties[p].is_object_property


-----------------------------------------------------------------------------
(* The keyword topic classifier (topic_classifier.py) *)

\* The longest article text of the model, in phrases.
MaxPhrases == 2

\* The number of words of the boilerplate phrase.
BoilerplateWords == 1500

\* A stretch of BoilerplateWords words none of which is a keyword.
Boilerplate == "the the ... the"

\* The phrases an article text is made of; a text is a list of phrases, read
\* as the phrases joined by single spaces (what _clean_text leaves of it).
Vocabulary ==
  {"NASA", "launch", "partnership", "Mars", "Dr. Smith,", "the", Boilerplate}

\* len(phrase.split())
Words(phrase) ==
  CASE phrase = "Dr. Smith," -> 2
    [] phrase = Boilerplate -> BoilerplateWords
    [] OTHER -> 1

\* KeywordTopicClassifier.TOPIC_KEYWORDS in the order of the dict: each topic
\* with the phrases of Vocabulary its pattern finds (one match per phrase).
TOPIC_KEYWORDS ==
  << [topic |-> "organizations", keywords |-> {"NASA", "partnership"}],
     [topic |-> "events", keywords |-> {"launch"}],
     [topic |-> "time", keywords |-> {}],
     [topic |-> "geo", keywords |-> {"Mars"}],
     [topic |-> "quantities", keywords |-> {}],
     [topic |-> "content", keywords |-> {}],
     [topic |-> "artifacts", keywords |-> {}],
     [topic |-> "categories", keywords |-> {}],
     [topic |-> "collections", keywords |-> {}],
     [topic |-> "agreements", keywords |-> {"partnership"}],
     [topic |-> "intentions", keywords |-> {}],
     [topic |-> "people", keywords |-> {"Dr. Smith,"}] >>

\* The thresholds of the callers, as fractions << numerator, denominator >>:
\* 0.1 (the default) and 0.05.
MinConfidences == {<< 1, 10 >>, << 1, 20 >>}

RECURSIVE SumWords(_)
\* len(text.split())
SumWords(text) ==
  IF text = << >> THEN 0 ELSE Words(Head(text)) + SumWords(Tail(text))

\* len(pattern.findall(text)) for the pattern of TOPIC_KEYWORDS[k]
Found(k, text) ==
  Cardinality({i \in DOMAIN text : text[i] \in TOPIC_KEYWORDS[k].keywords})

\* min((count / text_len) * 100, 1.0) as the fraction << n, text_len >>
Score(count, text_len) == << Min(count * 100, text_len), text_len >>

\* a >= b on two fractions with positive denominators
AtLeast(a, b) == a[1] * b[2] >= b[1] * a[2]

RECURSIVE InsertByConfidence(_, _, _)
\* The place list.sort(key=confidence, reverse=True) gives topic t among the
\* topics before it: behind every topic that scores at least as much.
InsertByConfidence(t, sorted, confidence) ==
  IF sorted = << >> THEN << t >>
  ELSE IF AtLeast(confidence[Head(sorted)], confidence[t])
       THEN << Head(sorted) >> \o InsertByConfidence(t, Tail(sorted), confidence)
       ELSE << t >> \o sorted

RECURSIVE SortByConfidence(_, _)
SortByConfidence(topics, confidence) ==
  IF topics = << >> THEN << >>
  ELSE InsertByConfidence(topics[Len(topics)],
                          SortByConfidence(SubSeq(topics, 1, Len(topics) - 1),
                                           confidence),
                          confidence)

\* KeywordTopicClassifier.classify: the TopicClassification of a text.
classify(text, min_confidence) ==
  LET text_len == SumWords(text)
      matched == {k \in DOMAIN TOPIC_KEYWORDS : Found(k, text) > 0}
      indexOf(t) == CHOOSE k \in DOMAIN TOPIC_KEYWORDS : TOPIC_KEYWORDS[k].topic = t
      confidence == [t \in {TOPIC_KEYWORDS[k].topic : k \in matched} |->
                       Score(Found(indexOf(t), text), text_len)]
      passes(rec) == /\ rec.topic \in DOMAIN confidence
                     /\ AtLeast(confidence[rec.topic], min_confidence)
      kept == SelectSeq(TOPIC_KEYWORDS, passes)
  IN  [topics |-> SortByConfidence([i \in DOMAIN kept |-> kept[i].topic],
                                   confidence),
       confidence |-> confidence,
       method |-> "keyword"]

-----------------------------------------------------------------------------
(* The pipeline: classify an article, subset the schema by its topics *)

\* The first seed class of every topic.
FirstSeeds == {TOPIC_SEEDS[t][1] : t \in DOMAIN TOPIC_SEEDS}

\* A document that declares the classes `names` and nothing else.
SeedDeclarations(names) == {<< ClassNode(n), RDF_type, OWL_Class >> : n \in names}

\* graph declares the first seed of every topic, or of every topic but one.
IsSeedOntology(graph) ==
  \/ graph = SeedDeclarations(FirstSeeds)
  \/ \E t \in DOMAIN TOPIC_SEEDS :
       graph = SeedDeclarations(FirstSeeds \ Range(TOPIC_SEEDS[t]))

InitPipeline ==
  /\ IsSeedOntology(g)
  /\ classes = _extract_classes(g)
  /\ properties = _extract_properties(g)
  /\ op = "idle"
  /\ args = << >>
  /\ result = {}
  /\ frame = << >>
  /\ articles_dir = << >>
  /\ output_file = None

\* classifier.classify(sample)
Classify ==
  /\ op = "idle"
  /\ \E text \in SeqsUpTo(Vocabulary, MaxPhrases), min_confidence \in MinConfidences :
       /\ op' = "classify"
       /\ args' = << text, min_confidence >>
       /\ result' = classify(text, min_confidence)
  /\ UNCHANGED << g, classes, properties, frame, articles_dir, output_file >>

\* schema.subset_by_topics(classification.topics)
SubsetClassification ==
  /\ op = "classify"
  /\ op' = "subset_by_topics"
  /\ args' = << result.topics, TRUE >>
  /\ result' = subset_by_topics(result.topics, TRUE)
  /\ UNCHANGED << g, classes, properties, frame, articles_dir, output_file >>

NextPipeline == Classify \/ SubsetClassification \/ Return

SpecPipeline == InitPipeline /\ [][NextPipeline]_vars

\* Every topic of TOPIC_SEEDS has a seed class that exists in the model.
EverySeedTopicPresent ==
  \A t \in DOMAIN TOPIC_SEEDS :
    \E i \in DOMAIN TOPIC_SEEDS[t] : TOPIC_SEEDS[t][i] \in DOMAIN classes

\* C23: when classify returned a non-empty topic list and every topic of
\* TOPIC_SEEDS has an existing seed class, the subset built from that list
\* has at least one class in its stats.
C23_ClassifiedTopicsSelect ==
  (op = "subset_by_topics" /\ args[1] # << >> /\ EverySeedTopicPresent)
    => stats(result).classes > 0


-----------------------------------------------------------------------------
(* The batch run (classify_all_articles.py).  articles_dir is the directory *)
(* listing in sorted order: article i has the id i and the content          *)
(* articles_dir[i].  output_file is None while the file does not exist,     *)
(* else << data >> with the data last written to it.  While a run is in its *)
(* loop, op is "running" and frame holds the locals of the run.             *)

\* The longest directory listing of the small corpora.
MaxArticles == 3

\* "Save periodically (every 100 articles)"
SavePeriod == 100

\* The content of a file that open() or read() raises on.
Unreadable == << "(bytes that are not UTF-8)" >>

ArticleContents == {<< "launch" >>, << "Mars", "launch" >>, Unreadable}

\* dir is a corpus of the model: a short listing of any contents, or one
\* listing long enough for a periodic save.
IsCorpus(dir) ==
  \/ \E n \in 0..MaxArticles : dir \in [1..n -> ArticleContents]
  \/ dir = [i \in 1..(SavePeriod + 1) |-> << "launch" >>]

\* --limit: absent, or a number; the long corpus is run without a limit.
Limits(dir) ==
  IF Len(dir) > MaxArticles THEN {None}
  ELSE {None} \cup {<< n >> : n \in 0..2}

\* --resume: absent, or an article id; 0 is the id of no file.
ResumeIds == {None} \cup {<< a >> : a \in 0..MaxArticles}

\* min_confidence: float = 0.1
DefaultMinConfidence == << 1, 10 >>

\* results.keys() of the dict kept as the list of its values
Keys(results) == {results[j].article_id : j \in DOMAIN results}

\* results[record["article_id"]] = record
Put(results, record) ==
  IF record.article_id \in Keys(results)
  THEN [j \in DOMAIN results |->
          IF results[j].article_id = record.article_id THEN record
          ELSE results[j]]
  ELSE Append(results, record)

\* topic_counts[topic] = topic_counts.get(topic, 0) + 1 for topic in topics
Bump(topic_counts, topics) ==
  [t \in DOMAIN topic_counts \cup Range(topics) |->
     (IF t \in DOMAIN topic_counts THEN topic_counts[t] ELSE 0)
       + (IF t \in Range(topics) THEN 1 ELSE 0)]

\* "Filter to only new articles if resuming": found_resume is set at the
\* file whose id is resume_from and stays set for the files after it.
ResumeFilter(html_files, resume_from, results) ==
  LET position(a) == CHOOSE k \in DOMAIN html_files : html_files[k] = a
      found_resume(a) == \E k \in 1..position(a) : html_files[k] = resume_from
      saved == Keys(results)
  IN  SelectSeq(html_files, LAMBDA a : found_resume(a) /\ a \notin saved)

\* "Apply limit": if limit: html_files = html_files[:limit]
ApplyLimit(html_files, limit) ==
  IF limit # None /\ limit[1] # 0
  THEN SubSeq(html_files, 1, Min(limit[1], Len(html_files)))
  ELSE html_files

\* _save_results: the data written to the file.
_save_results(results, topic_counts, errors) ==
  [total_articles |-> Len(results),
   topic_distribution |-> topic_counts,
   errors |-> errors,
   articles |-> results]

InitBatch ==
  /\ g = {}
  /\ classes = _extract_classes(g)
  /\ properties = _extract_properties(g)
  /\ op = "idle"
  /\ args = << >>
  /\ result = {}
  /\ frame = << >>
  /\ IsCorpus(articles_dir)
  /\ output_file = None

\* classify_all_articles up to its loop: the files found, the results
\* loaded, the resume filter and the limit.
ClassifyAllArticles ==
  /\ op = "idle"
  /\ \E limit \in Limits(articles_dir), resume_from \in ResumeIds :
       LET html_files == [i \in 1..Len(articles_dir) |-> i]
           results == IF resume_from # None /\ output_file # None
                      THEN output_file[1].articles
                      ELSE << >>
           filtered == IF resume_from # None
                       THEN ResumeFilter(html_files, resume_from[1], results)
                       ELSE html_files
       IN  /\ args' = << limit, resume_from >>
           /\ IF html_files = << >>
              THEN op' = "classify_all_articles" /\ result' = None /\ frame' = << >>
              ELSE /\ op' = "running"
                   /\ result' = {}
                   /\ frame' = [method |-> "classify_all_articles",
                                html_files |-> ApplyLimit(filtered, limit),
                                i |-> 0,
                                results |-> results,
                                topic_counts |-> << >>,
                                errors |-> << >>]
  /\ UNCHANGED << g, classes, properties, articles_dir, output_file >>

\* One iteration of "for i, article_file in enumerate(html_files, 1)".
ProcessArticle ==
  /\ op = "running"
  /\ frame.method = "classify_all_articles"
  /\ frame.i < Len(frame.html_files)
  /\ LET i == frame.i + 1
         article_id == frame.html_files[i]
         html == articles_dir[article_id]
     IN  IF html = Unreadable
         THEN /\ frame' = [frame EXCEPT !.i = i, !.errors = Append(@, article_id)]
              /\ output_file' = output_file
         ELSE LET classification == classify(html, DefaultMinConfidence)
                  results == Put(frame.results,
                                 [article_id |-> article_id,
                                  topics |-> classification.topics,
                                  method |-> classification.method])
                  topic_counts == Bump(frame.topic_counts, classification.topics)
              IN  /\ frame' = [frame EXCEPT !.i = i, !.results = results,
                                            !.topic_counts = topic_counts]
                  /\ output_file' =
                       IF i % SavePeriod = 0
                       THEN << _save_results(results, topic_counts, << >>) >>
                       ELSE output_file
  /\ UNCHANGED << g, classes, properties, op, args, result, articles_dir >>

\* "Final save" and the return of classify_all_articles.
FinalSave ==
  /\ op = "running"
  /\ frame.method = "classify_all_articles"
  /\ frame.i = Len(frame.html_files)
  /\ output_file' =
       << _save_results(frame.results, frame.topic_counts, frame.errors) >>
  /\ op' = "classify_all_articles"
  /\ result' = [total |-> Len(frame.results),
                errors |-> Len(frame.errors),
                topic_counts |-> frame.topic_counts]
  /\ frame' = << >>
  /\ UNCHANGED << g, classes, properties, args, articles_dir >>

\* main: a KeyboardInterrupt raised in the loop passes "except Exception"
\* and ends the run in main's handler.
KeyboardInterrupt ==
  /\ op = "running"
  /\ frame.method = "classify_all_articles"
  /\ op' = "interrupted"
  /\ result' = None
  /\ frame' = << >>
  /\ UNCHANGED << g, classes, properties, args, articles_dir, output_file >>

\* The process ends; the files stay.
Exit ==
  /\ op \in {"classify_all_articles", "interrupted"}
  /\ op' = "idle"
  /\ args' = << >>
  /\ result' = {}
  /\ UNCHANGED << g, classes, properties, frame, articles_dir, output_file >>

NextBatch ==
  \/ ClassifyAllArticles
  \/ ProcessArticle
  \/ FinalSave
  \/ KeyboardInterrupt
  \/ Exit

SpecBatch == InitBatch /\ [][NextBatch]_vars


-----------------------------------------------------------------------------
(* Claims about the batch run *)

\* The records of the output file (none while it does not exist).
Saved(file) == IF file = None THEN {} ELSE Range(file[1].articles)

\* The first n elements of list (all of it when it is shorter).
Take(list, n) == SubSeq(list, 1, Min(n, Len(list)))

\* The run that is being called or is going on was started with --resume.
Resuming(o, a) == o \in {"running", "classify_all_articles"} /\ a[2] # None

\* The articles a resumed run is to classify: those with an id at or after
\* resume_from in sorted order and not saved in the file, up to limit.
ToClassify(dir, file, limit, resume_from) ==
  LET saved == {r.article_id : r \in Saved(file)}
      new == SelectSeq([i \in 1..Len(dir) |-> i],
                       LAMBDA a : a >= resume_from[1] /\ a \notin saved)
  IN  IF limit = None THEN new ELSE Take(new, limit[1])

\* C24: in a run with resume_from and an existing output file, every record
\* saved in the file stays in the file at every write of the run; the run
\* takes up exactly the articles at or after resume_from in sorted order that
\* are not saved, up to limit; and each of them is classified once: it is
\* not among the results before its iteration and, when its file can be
\* read, is among them after it.
C24_ResumeKeepsAndCompletes ==
  [][/\ (Resuming(op', args') /\ output_file # None) =>
          Saved(output_file) \subseteq Saved(output_file')
     /\ (op = "idle" /\ op' = "running" /\ args'[2] # None /\ output_file # None) =>
          frame'.html_files
            = ToClassify(articles_dir, output_file, args'[1], args'[2])
     /\ (op = "running" /\ op' = "running" /\ args[2] # None) =>
          LET article_id == frame.html_files[frame'.i]
          IN  /\ article_id \notin Keys(frame.results)
              /\ articles_dir[article_id] # Unreadable =>
                   article_id \in Keys(frame'.results)]_vars

\* C25: when a run is interrupted after k iterations, the output file holds
\* the classification of every article classified in those k iterations.
C25_InterruptKeepsPartial ==
  [][(op = "running" /\ op' = "interrupted") =>
       \A j \in 1..frame.i :
         LET article_id == frame.html_files[j]
         IN  articles_dir[article_id] # Unreadable =>
               \E r \in Saved(output_file') :
                 /\ r.article_id = article_id
                 /\ r.topics = classify(articles_dir[article_id],
                                        DefaultMinConfidence).topics]_vars

\* The number of records of the file whose topics list contains topic.
ArticlesWith(data, topic) ==
  Cardinality({j \in DOMAIN data.articles : topic \in Range(data.articles[j].topics)})

\* C26: in every output file written, total_articles is the number of saved
\* records and topic_distribution counts, for each topic, the saved records
\* whose topics list contains it (a topic without a count has no record).
C26_DistributionConsistent ==
  output_file # None =>
    LET data == output_file[1]
        listed == UNION {Range(data.articles[j].topics) : j \in DOMAIN data.articles}
    IN  /\ data.total_articles = Len(data.articles)
        /\ \A t \in listed \cup DOMAIN data.topic_distribution :
             /\ t \in DOMAIN data.topic_distribution
             /\ data.topic_distribution[t] = ArticlesWith(data, t)


-----------------------------------------------------------------------------
(* Subsets name existing entities only *)

\* The calls of SpecSubset, as the specification under which the properties
\* of the names a subset holds are checked.
SpecSelection == Init /\ [][NextSubset]_vars

\* C27: every subset returned by subset_by_topics or subset_by_classes names
\* only entities of the model: its class names are keys of classes and its
\* property names are keys of properties.
C27_SubsetNamesExist ==
  op \in {"subset_by_topics", "subset_by_classes"} =>
    /\ result.class_names \subseteq DOMAIN classes
    /\ result.property_names \subseteq DOMAIN properties

\* A subset with a class that has a superclass name absent from the model.
C27_Witness ==
  /\ op \in {"subset_by_topics", "subset_by_classes"}
  /\ \E c \in result.class_names :
       \E i \in DOMAIN classes[c].superclasses :
         classes[c].superclasses[i] \notin DOMAIN classes


-----------------------------------------------------------------------------
(* Upward closure of the class set *)

\* The direct superclasses of class c that exist in the model.
DirectSuperclasses(c) == Range(classes[c].superclasses) \cap DOMAIN classes

\* C28 as claimed: the class set of every subset is closed upward, i.e. every
\* existing direct superclass of a selected class is selected, also with
\* include_descendants.
C28_ClosedUpward ==
  op \in {"subset_by_topics", "subset_by_classes"} =>
    \A c \in result.class_names : DirectSuperclasses(c) \subseteq result.class_names

\* C28: the class set of subset_by_classes and of subset_by_topics without
\* include_descendants is closed upward; with include_descendants, every
\* existing direct superclass of a seed class or of an ancestor of a seed
\* class is selected (a class selected only as a descendant of a seed may
\* have a superclass that is not selected).
C28_ClosedUpwardAboveSeeds ==
  /\ (op = "subset_by_classes" \/ (op = "subset_by_topics" /\ ~args[2])) =>
       \A c \in result.class_names :
         DirectSuperclasses(c) \subseteq result.class_names
  /\ (op = "subset_by_topics" /\ args[2]) =>
       \A c \in ExistingSeeds(args[1]) \cup Above(ExistingSeeds(args[1])) :
         DirectSuperclasses(c) \subseteq result.class_names

\* C28 witness: with include_descendants, a seed whose superclass was
\* selected and a descendant of a seed with a superclass that was not.
C28_Witness ==
  /\ op = "subset_by_topics"
  /\ args[2]
  /\ \E s \in ExistingSeeds(args[1]) : DirectSuperclasses(s) \ {s} # {}
  /\ \E c \in result.class_names : DirectSuperclasses(c) \ result.class_names # {}


-----------------------------------------------------------------------------
(* Completeness of the Classes section *)

\* C29: to_prompt_text renders every class of the subset that exists in the
\* model at least once in the Classes section, whatever the hierarchy
\* (several parents, cyclic subclass edges).
C29_EveryClassRendered ==
  op = "to_prompt_text" =>
    LET section == ClassSection(result)
    IN  \A c \in args[1].class_names \cap DOMAIN classes :
          EntryLines(section, c) # {}


-----------------------------------------------------------------------------
(* subset_by_topics as a union over its topics *)

\* C30: the subset of a topic list is the union of the subsets of its topics
\* taken one at a time (same include_descendants).  Hence subset_by_topics
\* distributes over union, the subset of T1 + T2 being the union of the
\* subsets of T1 and of T2, and permuting or duplicating topics leaves the
\* class set and the property set unchanged.
C30_DistributesOverTopics ==
  op = "subset_by_topics" =>
    LET single == [t \in Range(args[1]) |-> subset_by_topics(<< t >>, args[2])]
    IN  /\ result.class_names = UNION {single[t].class_names : t \in DOMAIN single}
        /\ result.property_names
             = UNION {single[t].property_names : t \in DOMAIN single}

\* C30 witness: a request of two topics each of which brings a class that
\* the other does not, in a subset that holds a property.
C30_Witness ==
  /\ op = "subset_by_topics"
  /\ Len(args[1]) = 2
  /\ subset_by_topics(<< args[1][1] >>, args[2]).class_names
       \ subset_by_topics(<< args[1][2] >>, args[2]).class_names # {}
  /\ subset_by_topics(<< args[1][2] >>, args[2]).class_names
       \ subset_by_topics(<< args[1][1] >>, args[2]).class_names # {}
  /\ result.property_names # {}

=============================================================================
